---- MODULE Spec2Model ----
(***************************************************************************)
(* Model of decoderXQAImplPrecompiled.cpp: the precompiled XQA kernel      *)
(* registry (XQAKernelList), the per-device registry cache                 *)
(* (XQAKernelLoader) and the dispatch entry points.                        *)
(***************************************************************************)
EXTENDS Integers, Sequences, FiniteSets, TLC

(***************************************************************************)
(* Bounds of the model.                                                    *)
(***************************************************************************)
\* longest catalog (sXqaKernelMetaInfo) the model enumerates
MaxKernelMetaCount == 2
\* how many times the harness calls loadXQAKernels on one registry
MaxLoadCalls == 2
\* threads calling into the per-device cache, and calls of getXQAKernels they make in all
NumThreads == 2
MaxCalls == 2

(***************************************************************************)
(* Program constants.                                                      *)
(***************************************************************************)
kSM_90 == 90
\* the slots of s_factory
kNbFactorySlots == 32
kMAX_NB_KERNEL_PARAMS == 11
kMinHistoryTokensPerBlock == 128
kEnableMinBlockFactor == 4
\* the 46KB threshold of loadXQAKernels
kSharedMemThreshold == 46 * 1024

nullptr == "nullptr"

VARIABLES
    catalog,      \* sXqaKernelMetaInfo: the compiled-in sequence of descriptors
    forceXQA,     \* what forceXQAKernels() reads from the environment
    registries,   \* every XQAKernelList constructed so far, by identity
    lastCall,     \* the call in progress in the harness and what it produced
    s_factory,    \* XQAKernelLoader::Get: the static table of loaders, by device ordinal
    loaders,      \* every XQAKernelLoader constructed so far, by identity
    freed,        \* the loaders and registries whose destructor has run
    s_mutex,      \* getXQAKernels: the thread holding the static mutex, 0 when free
    pc,           \* where each thread is in getXQAKernels and the call that follows
    local,        \* each thread's locals: device, key, loader reference, registry pointer
    constructedFor, \* for each registry, the loader and key it was constructed for
    returned      \* every (loader, key, registry) getXQAKernels has returned

cacheVars == <<s_factory, loaders, freed, s_mutex, pc, local, constructedFor, returned>>
vars == <<catalog, forceXQA, registries, lastCall, cacheVars>>

(***************************************************************************)
(* The catalog: XQAKernelMetaInfo descriptors.  A cubin carries its own    *)
(* global symbols smemSize and (optionally) kernelType.                    *)
(***************************************************************************)
KernelMeta(dt, sm, kv, beam, ratio, tile, tpp, paged, multi, cubin, fn) ==
    [mDataType |-> dt, mSM |-> sm, mKVDataType |-> kv, mHeadDim |-> 128,
     mBeamWidth |-> beam, mNumQHeadsOverKV |-> ratio, mMTileSize |-> tile,
     mTokensPerPage |-> tpp, mPagedKVCache |-> paged, mMultiQueryTokens |-> multi,
     mCubin |-> cubin, mFuncName |-> fn]

KernelMetaUniverse ==
    << KernelMeta("DATA_TYPE_FP16", 80, "DATA_TYPE_FP16", 1, 8, 8, 0, FALSE, FALSE, "cubinA", "kernel_mha"),
       KernelMeta("DATA_TYPE_FP16", 80, "DATA_TYPE_FP16", 4, 8, 8, 0, FALSE, FALSE, "cubinA", "kernel_mha_beam4"),
       KernelMeta("DATA_TYPE_FP16", 80, "DATA_TYPE_FP16", 1, 0, 16, 0, FALSE, TRUE, "cubinB", "kernel_mha"),
       KernelMeta("DATA_TYPE_FP16", 80, "DATA_TYPE_FP16", 1, 0, 32, 0, FALSE, TRUE, "cubinC", "kernel_mha"),
       KernelMeta("DATA_TYPE_FP16", kSM_90, "DATA_TYPE_E4M3", 1, 8, 8, 0, FALSE, FALSE, "cubinH", "kernel_mha"),
       KernelMeta("DATA_TYPE_FP16", 80, "DATA_TYPE_FP16", 1, 8, 8, 64, TRUE, FALSE, nullptr, "kernel_mha"),
       KernelMeta("DATA_TYPE_BF16", 80, "DATA_TYPE_BF16", 1, 8, 8, 0, FALSE, FALSE, "cubinD", "kernel_mha"),
       KernelMeta("DATA_TYPE_FP16", kSM_90, "DATA_TYPE_FP16", 1, 8, 8, 0, FALSE, FALSE, "cubinH", "kernel_mha_fp16"),
       KernelMeta("DATA_TYPE_FP16", kSM_90, "DATA_TYPE_E4M3", 1, 1, 1, 0, FALSE, FALSE, "cubinE", "kernel_mha") >>

\* the global symbol smemSize of a cubin
CubinSmemSize(cubin) ==
    IF cubin = "cubinH" THEN 64 * 1024 ELSE IF cubin = "cubinC" THEN kSharedMemThreshold ELSE 16 * 1024

\* the global symbol kernelType of a cubin, "absent" when the cubin has none
CubinKernelType(cubin) ==
    IF cubin = "cubinH" THEN "kHOPPER_WARP_SPECIALIZED" ELSE "absent"

\* every catalog of at most MaxKernelMetaCount descriptors, in table order
Catalogs ==
    LET U == 1..Len(KernelMetaUniverse)
        Picks == UNION {[1..n -> U] : n \in 0..MaxKernelMetaCount}
        Increasing(p) == \A i \in DOMAIN p : \A j \in DOMAIN p : i < j => p[i] < p[j]
    IN {[i \in DOMAIN p |-> KernelMetaUniverse[p[i]]] : p \in {q \in Picks : Increasing(q)}}

(***************************************************************************)
(* XQAKernelList: construction and loadXQAKernels.                         *)
(***************************************************************************)
EmptyMap == [k \in {} |-> nullptr]

\* std::unordered_map::insert: an existing entry is kept
MapInsert(m, k, v) ==
    IF k \in DOMAIN m THEN m
    ELSE [x \in DOMAIN m \cup {k} |-> IF x = k THEN v ELSE m[x]]

\* XQAKernelList{type, sm}; the last four fields are bookkeeping of the driver
\* calls made on behalf of this registry
XQAKernelList(type, sm, force) ==
    [mDataType |-> type, mSM |-> sm, mForceXQA |-> force,
     mFunctions |-> EmptyMap, mModules |-> EmptyMap,
     moduleLoads |-> <<>>, resolved |-> {}, loadCalls |-> 0, loadReturned |-> 0]

\* the key loadXQAKernels stores a descriptor under
MetaHashKey(kernelMeta) ==
    [kv_data_type |-> kernelMeta.mKVDataType, head_size |-> kernelMeta.mHeadDim,
     beam_size |-> kernelMeta.mBeamWidth, num_q_heads_per_kv |-> kernelMeta.mNumQHeadsOverKV,
     m_tilesize |-> kernelMeta.mMTileSize, tokens_per_page |-> kernelMeta.mTokensPerPage,
     paged_kv_cache |-> kernelMeta.mPagedKVCache, multi_query_tokens |-> kernelMeta.mMultiQueryTokens]

\* which driver call fails, if it is made: descriptor index and call
NoFail == [idx |-> 0, call |-> "none"]
LoadFailures(cat) ==
    {NoFail} \cup
    [idx : DOMAIN cat,
     call : {"cuModuleLoadData", "cuModuleGetFunction", "smemSize", "cuFuncSetAttribute"}]

\* faulty variant of ModuleFound: the module map is not consulted
ModuleFound_Never(reg, cubin) == FALSE

\* findModuleIter != mModules.end()
ModuleFound(reg, cubin) == cubin \in DOMAIN reg.mModules

\* faulty variant of CubinAbsent: the blob pointer is not looked at
CubinAbsent_Never(kernelMeta) == FALSE

\* kernelMeta.mCubin == nullptr
CubinAbsent(kernelMeta) == kernelMeta.mCubin = nullptr

\* one iteration of the loop of loadXQAKernels on descriptor i: the registry
\* after it and whether a driver call threw
LoadOne(reg, cat, i, fail) ==
    LET kernelMeta == cat[i]
        fails(call) == fail.idx = i /\ fail.call = call
        found == ModuleFound(reg, kernelMeta.mCubin)
        hmod == IF found THEN reg.mModules[kernelMeta.mCubin]
                ELSE [module |-> Len(reg.moduleLoads) + 1, cubin |-> kernelMeta.mCubin]
        withModule ==
            IF found THEN reg
            ELSE [reg EXCEPT !.mModules = MapInsert(@, kernelMeta.mCubin, hmod),
                             !.moduleLoads = Append(@, kernelMeta.mCubin)]
        asked == [withModule EXCEPT !.resolved = @ \cup {i}]
        tag == CubinKernelType(kernelMeta.mCubin)
        funcInfo == [mMetaInfoIndex |-> i,
                     mSharedMemBytes |-> CubinSmemSize(kernelMeta.mCubin),
                     mDeviceFunction |-> [hmod |-> hmod, name |-> kernelMeta.mFuncName],
                     mKernelType |-> IF tag = "absent" THEN "kAMPERE_WARP_SPECIALIZED" ELSE tag]
    IN  IF kernelMeta.mSM # reg.mSM \/ kernelMeta.mDataType # reg.mDataType
        THEN [reg |-> reg, threw |-> FALSE]
        ELSE IF CubinAbsent(kernelMeta)
        THEN [reg |-> reg, threw |-> FALSE]
        ELSE IF ~found /\ fails("cuModuleLoadData")
        THEN [reg |-> reg, threw |-> TRUE]
        ELSE IF fails("cuModuleGetFunction") \/ fails("smemSize")
        THEN [reg |-> asked, threw |-> TRUE]
        ELSE IF funcInfo.mSharedMemBytes >= kSharedMemThreshold /\ fails("cuFuncSetAttribute")
        THEN [reg |-> asked, threw |-> TRUE]
        ELSE [reg |-> [asked EXCEPT !.mFunctions = MapInsert(@, MetaHashKey(kernelMeta), funcInfo)],
              threw |-> FALSE]

RECURSIVE LoadLoop(_, _, _, _)
LoadLoop(reg, cat, i, fail) ==
    IF i > Len(cat) THEN [reg |-> reg, threw |-> FALSE]
    ELSE LET step == LoadOne(reg, cat, i, fail)
         IN IF step.threw THEN step ELSE LoadLoop(step.reg, cat, i + 1, fail)

\* loadXQAKernels: returns at once when mFunctions is not empty
loadXQAKernels(reg, cat, fail) ==
    LET entered == [reg EXCEPT !.loadCalls = @ + 1]
        done == IF entered.mFunctions # EmptyMap
                THEN [reg |-> entered, threw |-> FALSE]
                ELSE LoadLoop(entered, cat, 1, fail)
    IN  IF done.threw THEN done
        ELSE [done EXCEPT !.reg.loadReturned = @ + 1]

(***************************************************************************)
(* Requests (XQAParams).                                                   *)
(***************************************************************************)
XQAParams(kv, beam, q, k, multi, len, paged, mbm, scale, batch, timestep) ==
    [kv_cache_data_type |-> kv, head_size |-> 128, beam_width |-> beam,
     num_q_heads |-> q, num_kv_heads |-> k, multi_query_tokens |-> multi,
     generation_input_length |-> len, paged_kv_cache |-> paged, tokens_per_block |-> 64,
     multi_block_mode |-> mbm, fp8_out_scale |-> scale, batch_size |-> batch,
     timestep |-> timestep]

\* the requests the lookup and dispatch operations are called with
Requests ==
    {XQAParams(kv, beam, h[1], h[2], multi, len, paged, mbm, scale, 2, 256) :
        kv \in {"DATA_TYPE_FP16", "DATA_TYPE_E4M3"}, beam \in {1, 4},
        h \in {<<8, 1>>, <<8, 8>>, <<12, 8>>}, multi \in BOOLEAN, len \in {1, 16, 17},
        paged \in BOOLEAN, mbm \in BOOLEAN, scale \in {nullptr, "fp8_out_scale"}}

NoRequest == XQAParams("none", 0, 0, 1, FALSE, 0, FALSE, FALSE, nullptr, 0, 0)

NoKey == [kv_data_type |-> "none", head_size |-> 0, beam_size |-> 0, num_q_heads_per_kv |-> 0,
          m_tilesize |-> 0, tokens_per_page |-> 0, paged_kv_cache |-> FALSE,
          multi_query_tokens |-> FALSE]

\* what a call of the harness produced; events are the operations put on the
\* stream, the host's waits for the stream and the handle-map lookups, in
\* program order (a driver call that returns an error puts nothing on the stream)
NoCall ==
    [op |-> "none", req |-> NoRequest, mpc |-> 0, outcome |-> "none", fatal |-> "",
     result |-> FALSE, key |-> NoKey, events |-> <<>>, kernelParams |-> <<>>,
     maxNbKernelParams |-> 0, outOfBounds |-> FALSE, output |-> "none",
     blockCount |-> 0, before |-> <<>>,
     launch |-> [func |-> "none", gridX |-> "none", gridY |-> 0, gridZ |-> 0, blockZ |-> 0,
                 sharedMem |-> 0]]

\* faulty variant of HeadsDivide: the check is missing
HeadsDivide_Unchecked(req) == TRUE

\* the condition of TLLM_CHECK_WITH_INFO in supportConfig and in run
HeadsDivide(req) == req.num_q_heads % req.num_kv_heads = 0

(***************************************************************************)
(* XQAKernelList::supportConfig.                                           *)
(***************************************************************************)
\* faulty variant of KernelNumQHeadsOverKV: the ratio is kept for multi-token requests
KernelNumQHeadsOverKV_Raw(req) == req.num_q_heads \div req.num_kv_heads

\* kernel_num_q_heads_over_kv of supportConfig and of run
KernelNumQHeadsOverKV(req) ==
    IF req.multi_query_tokens THEN 0 ELSE req.num_q_heads \div req.num_kv_heads

\* the hash_key of supportConfig
SupportConfigKey(req) ==
    LET num_q_heads_over_kv == req.num_q_heads \div req.num_kv_heads
        kernel_num_q_heads_over_kv == KernelNumQHeadsOverKV(req)
        m_tilesize == IF req.multi_query_tokens THEN 16 ELSE num_q_heads_over_kv
    IN  [kv_data_type |-> req.kv_cache_data_type, head_size |-> req.head_size,
         beam_size |-> req.beam_width, num_q_heads_per_kv |-> kernel_num_q_heads_over_kv,
         m_tilesize |-> m_tilesize,
         tokens_per_page |-> IF req.paged_kv_cache THEN req.tokens_per_block ELSE 0,
         paged_kv_cache |-> req.paged_kv_cache, multi_query_tokens |-> req.multi_query_tokens]

supportConfig(reg, req) ==
    IF ~HeadsDivide(req)
    THEN [NoCall EXCEPT !.op = "supportConfig", !.req = req, !.outcome = "fatal",
                        !.fatal = "numQHeads should be multiple of numKVHeads."]
    ELSE [NoCall EXCEPT !.op = "supportConfig", !.req = req, !.outcome = "ok",
                        !.key = SupportConfigKey(req), !.events = <<"find">>,
                        !.result = (SupportConfigKey(req) \in DOMAIN reg.mFunctions)]

(***************************************************************************)
(* XQAKernelList::mayHavePerfGain.                                         *)
(***************************************************************************)
\* faulty variant of PerfGainShortcut: multi_query_tokens is not looked at
PerfGainShortcut_ForceOnly(reg, req) == reg.mForceXQA

\* the early return of mayHavePerfGain
PerfGainShortcut(reg, req) == reg.mForceXQA \/ req.multi_query_tokens

\* multi_block_count
MultiBlockCount(req) ==
    IF req.multi_block_mode THEN req.timestep \div kMinHistoryTokensPerBlock ELSE 1

\* faulty variant of EnoughBlocks: a strict comparison
EnoughBlocks_Strict(block_count, multiprocessor_count) ==
    block_count * kEnableMinBlockFactor > multiprocessor_count

\* the comparison of the return statement
EnoughBlocks(block_count, multiprocessor_count) ==
    block_count * kEnableMinBlockFactor >= multiprocessor_count

mayHavePerfGain(reg, req, multiprocessor_count) ==
    IF PerfGainShortcut(reg, req)
    THEN [NoCall EXCEPT !.op = "mayHavePerfGain", !.req = req, !.mpc = multiprocessor_count,
                        !.outcome = "ok", !.result = TRUE]
    ELSE LET block_count == req.num_kv_heads * req.batch_size * MultiBlockCount(req)
         IN [NoCall EXCEPT !.op = "mayHavePerfGain", !.req = req, !.mpc = multiprocessor_count,
                           !.outcome = "ok", !.blockCount = block_count,
                           !.result = EnoughBlocks(block_count, multiprocessor_count)]

(***************************************************************************)
(* XQAKernelList::run.                                                     *)
(***************************************************************************)
\* the runtime failures a call of run can meet: the call named reports an error
RunFailures ==
    {"none", "invokeBuildDecoderInfo", "invokeQKVPreprocessing", "cudaMemsetAsync",
     "cuLaunchKernel", "kernel", "invokeConversion"}

\* mTileSize
TileSize(qSeqLen) == IF qSeqLen <= 16 THEN 16 ELSE 32

\* the hash_key of run
RunHashKey(req) ==
    LET num_q_heads_over_kv == req.num_q_heads \div req.num_kv_heads
        mTileSize == TileSize(req.generation_input_length)
        kernel_num_q_heads_over_kv == KernelNumQHeadsOverKV(req)
        kernel_m_tilesize == IF req.multi_query_tokens THEN mTileSize ELSE num_q_heads_over_kv
    IN  [kv_data_type |-> req.kv_cache_data_type, head_size |-> req.head_size,
         beam_size |-> req.beam_width, num_q_heads_per_kv |-> kernel_num_q_heads_over_kv,
         m_tilesize |-> kernel_m_tilesize,
         tokens_per_page |-> IF req.paged_kv_cache THEN req.tokens_per_block ELSE 0,
         paged_kv_cache |-> req.paged_kv_cache, multi_query_tokens |-> req.multi_query_tokens]

\* log2 of a positive unsigned, truncated
RECURSIVE Log2(_)
Log2(n) == IF n <= 1 THEN 0 ELSE 1 + Log2(n \div 2)

RECURSIVE Pow2(_)
Pow2(n) == IF n = 0 THEN 1 ELSE 2 * Pow2(n - 1)

divUp(a, b) == (a + b - 1) \div b

\* faulty variant of GmmaExpected: the type of the KV cache is not looked at
GmmaExpected_AnyCache(reg, req) == reg.mSM = kSM_90 /\ req.beam_width = 1

\* the condition the TLLM_CHECK of the single-token branch compares isGmmaKernel with
GmmaExpected(reg, req) ==
    reg.mSM = kSM_90 /\ req.kv_cache_data_type = "DATA_TYPE_E4M3" /\ req.beam_width = 1

\* maxNbKernelParams
MaxNbKernelParams(isGmmaKernel) == IF isGmmaKernel THEN 11 ELSE 10

\* faulty variant of SingleTokenParams: the beam-search block is appended whatever the
\* beam width
SingleTokenParams_AlwaysBeam(req, isGmmaKernel) ==
    <<"num_k_heads", "output", "xqa_q_input_ptr", "kvCacheParams", "beamSearchParams",
      "batch_size", "kv_scale_quant_orig">>
    \o (IF isGmmaKernel THEN <<"tensorMap">> ELSE <<>>)
    \o <<"semaphores", "scratch">>

\* the pointers the single-token branch hands to appendParam, in order
SingleTokenParams(req, isGmmaKernel) ==
    <<"num_k_heads", "output", "xqa_q_input_ptr", "kvCacheParams">>
    \o (IF req.beam_width > 1 THEN <<"beamSearchParams">> ELSE <<>>)
    \o <<"batch_size", "kv_scale_quant_orig">>
    \o (IF isGmmaKernel THEN <<"tensorMap">> ELSE <<>>)
    \o <<"semaphores", "scratch">>

\* appendParam: kernelParams[idxNextParam++] = p under its TLLM_CHECK; written
\* holds the entries written so far, idxNextParam = Len(written)
appendParam(st, p, maxNbKernelParams) ==
    IF st.threw THEN st
    ELSE IF ~(Len(st.written) < maxNbKernelParams) THEN [st EXCEPT !.threw = TRUE]
    ELSE [st EXCEPT !.written = Append(@, p),
                    !.outOfBounds = @ \/ Len(st.written) >= kMAX_NB_KERNEL_PARAMS]

RECURSIVE AppendAll(_, _, _)
AppendAll(st, ps, maxNbKernelParams) ==
    IF ps = <<>> THEN st
    ELSE AppendAll(appendParam(st, Head(ps), maxNbKernelParams), Tail(ps), maxNbKernelParams)

\* the guard write kernelParams[idxNextParam] = nullptr
WriteSentinel(st) ==
    [st EXCEPT !.written = Append(@, nullptr),
               !.outOfBounds = @ \/ Len(st.written) >= kMAX_NB_KERNEL_PARAMS]

\* the parameters of the multi-token branch
MultiTokenParams ==
    <<"qSeqLen", "num_k_heads", "log2HeadGrpSize", "output", "xqa_q_input_ptr", "maskPtr",
      "kvCacheParams", "batch_size", "kvCacheQuantOrig", "scratch">>

Issue(call, e) == [call EXCEPT !.events = Append(@, e)]

\* faulty variant of Fatal: the failure is swallowed and the call returns normally
Fatal_Degraded(call, msg) == [call EXCEPT !.outcome = "ok"]

\* a failed TLLM_CHECK, cuErrCheck or check_cuda_error: the call ends here
Fatal(call, msg) == [call EXCEPT !.outcome = "fatal", !.fatal = msg]

\* sync_check_cuda_error(): the host waits for the stream and checks for an error
sync_check_cuda_error(call) == Issue(call, "sync_check_cuda_error")

\* faulty variant of NeedOutputCvt: the output scale is not looked at
NeedOutputCvt_Never(req) == FALSE

\* needOutputCvt
NeedOutputCvt(req) == req.fp8_out_scale # nullptr

\* from the sync_check_cuda_error after the launch to the end of run
RunAfterLaunch(call, req, fail) ==
    LET synced == sync_check_cuda_error(call)
        converted == sync_check_cuda_error(Issue(synced, "invokeConversion"))
    IN  IF fail = "kernel" THEN Fatal(synced, "CUDA runtime error")
        ELSE IF NeedOutputCvt(req)
        THEN IF fail = "invokeConversion"
             THEN Fatal(converted, "CUDA runtime error")
             ELSE [converted EXCEPT !.outcome = "ok"]
        ELSE [synced EXCEPT !.outcome = "ok"]

\* the multi-token branch, from the kernel parameters to the launch
RunMultiToken(call, info, req, fail) ==
    LET qSeqLen == req.generation_input_length
        log2HeadGrpSize == Log2(req.num_q_heads \div req.num_kv_heads)
        nbTokenBlocksPerGrp == divUp(qSeqLen * Pow2(log2HeadGrpSize), TileSize(qSeqLen))
        withParams == [call EXCEPT !.kernelParams = MultiTokenParams]
        zeroed == IF req.multi_block_mode THEN Issue(withParams, "cudaMemsetAsync")
                  ELSE withParams
        zeroedSynced == IF req.multi_block_mode THEN sync_check_cuda_error(zeroed)
                        ELSE zeroed
        launched ==
            [Issue(zeroedSynced, "cuLaunchKernel") EXCEPT
                !.launch = [func |-> info.mDeviceFunction.name,
                            gridX |-> IF req.multi_block_mode THEN "computeMultiBlockCount" ELSE "1",
                            gridY |-> req.num_kv_heads * nbTokenBlocksPerGrp,
                            gridZ |-> req.batch_size, blockZ |-> 2,
                            sharedMem |-> info.mSharedMemBytes]]
    IN  IF req.multi_block_mode /\ fail = "cudaMemsetAsync"
        THEN Fatal(withParams, "CUDA runtime error")
        ELSE IF fail = "cuLaunchKernel"
        THEN Fatal(zeroedSynced, "CUDA driver error")
        ELSE RunAfterLaunch(launched, req, fail)

\* the single-token branch, from the kernel parameters to the launch
RunSingleToken(call, reg, info, req, fail) ==
    LET isGmmaKernel == info.mKernelType = "kHOPPER_WARP_SPECIALIZED"
        maxNbKernelParams == MaxNbKernelParams(isGmmaKernel)
        appended == AppendAll([written |-> <<>>, outOfBounds |-> FALSE, threw |-> FALSE],
                              SingleTokenParams(req, isGmmaKernel), maxNbKernelParams)
        guarded == WriteSentinel(appended)
        withParams == [call EXCEPT !.kernelParams = guarded.written,
                                   !.maxNbKernelParams = maxNbKernelParams,
                                   !.outOfBounds = guarded.outOfBounds]
        launched ==
            [Issue(withParams, "cuLaunchKernel") EXCEPT
                !.launch = [func |-> info.mDeviceFunction.name,
                            gridX |-> IF req.multi_block_mode THEN "computeMultiBlockCount" ELSE "1",
                            gridY |-> req.num_kv_heads, gridZ |-> req.batch_size,
                            blockZ |-> IF isGmmaKernel THEN 3 ELSE 2,
                            sharedMem |-> info.mSharedMemBytes]]
    IN  IF isGmmaKernel # GmmaExpected(reg, req)
        THEN Fatal(call, "Assertion failed: isGmmaKernel")
        ELSE IF appended.threw
        THEN Fatal([call EXCEPT !.kernelParams = appended.written,
                                !.maxNbKernelParams = maxNbKernelParams,
                                !.outOfBounds = appended.outOfBounds],
                   "Assertion failed: idxNextParam < maxNbKernelParams")
        ELSE IF fail = "cuLaunchKernel"
        THEN Fatal(withParams, "CUDA driver error")
        ELSE RunAfterLaunch(launched, req, fail)

run(reg, req, multiprocessor_count, fail) ==
    LET entered == [NoCall EXCEPT !.op = "run", !.req = req, !.mpc = multiprocessor_count]
        needOutputCvt == NeedOutputCvt(req)
        built == [entered EXCEPT !.output = IF needOutputCvt THEN "ioScratch" ELSE "xqaParams.output"]
        decoderInfo == sync_check_cuda_error(Issue(built, "invokeBuildDecoderInfo"))
        preprocessed == sync_check_cuda_error(Issue(decoderInfo, "invokeQKVPreprocessing"))
        hash_key == RunHashKey(req)
        looked == [Issue(preprocessed, "find") EXCEPT !.key = hash_key]
    IN  IF ~HeadsDivide(req)
        THEN Fatal(entered, "numQHeads should be multiple of numKVHeads.")
        ELSE IF fail = "invokeBuildDecoderInfo" THEN Fatal(decoderInfo, "CUDA runtime error")
        ELSE IF fail = "invokeQKVPreprocessing" THEN Fatal(preprocessed, "CUDA runtime error")
        ELSE IF hash_key \notin DOMAIN reg.mFunctions
        THEN Fatal(looked, "XQAKernelFunc not found.")
        ELSE IF req.multi_query_tokens
        THEN RunMultiToken(looked, reg.mFunctions[hash_key], req, fail)
        ELSE RunSingleToken(looked, reg, reg.mFunctions[hash_key], req, fail)

\* faulty variant of AfterFind: the lookup inserts the key it does not find
AfterFind_Inserting(reg, hash_key) ==
    [reg EXCEPT !.mFunctions =
        MapInsert(@, hash_key, [mMetaInfoIndex |-> 0, mSharedMemBytes |-> 0,
                                mDeviceFunction |-> nullptr,
                                mKernelType |-> "kAMPERE_WARP_SPECIALIZED"])]

\* mFunctions.find(hash_key) in supportConfig and in run, both const: the
\* registry after the lookup
AfterFind(reg, hash_key) == reg

\* the registry after a call of supportConfig, shouldUse or run that produced call
Looked(reg, call) ==
    IF \E i \in DOMAIN call.events : call.events[i] = "find"
    THEN AfterFind(reg, call.key)
    ELSE reg

Threads == 1..NumThreads

\* the cache before any thread has touched it
NoCache ==
    /\ s_factory = [d \in 0..(kNbFactorySlots - 1) |-> 0]
    /\ loaders = <<>>
    /\ freed = [loaders |-> {}, registries |-> {}]
    /\ s_mutex = 0
    /\ pc = [t \in Threads |-> "idle"]
    /\ local = [t \in Threads |->
                  [device |-> 0, type |-> "none", sm |-> 0, factory |-> 0, kernel |-> 0,
                   calls |-> 0, last |-> "none", outOfBounds |-> FALSE]]
    /\ returned = {}

(***************************************************************************)
(* The load harness: one XQAKernelList, constructed for a numeric type and *)
(* an architecture class over a catalog, and calls of loadXQAKernels on    *)
(* it, each of which a driver error may end.                               *)
(***************************************************************************)
InitLoad ==
    /\ catalog \in Catalogs
    /\ forceXQA = FALSE
    /\ \E sm \in {80, kSM_90} : registries = <<XQAKernelList("DATA_TYPE_FP16", sm, forceXQA)>>
    /\ lastCall = NoCall
    /\ constructedFor = <<[loader |-> 0, type |-> registries[1].mDataType, sm |-> registries[1].mSM]>>
    /\ NoCache

Idle == lastCall.op = "none"

\* a call of loadXQAKernels on the registry
Load ==
    /\ Idle
    /\ registries[1].loadCalls < MaxLoadCalls
    /\ \E fail \in LoadFailures(catalog) :
          LET done == loadXQAKernels(registries[1], catalog, fail)
          IN /\ registries' = [registries EXCEPT ![1] = done.reg]
             /\ lastCall' = [NoCall EXCEPT !.op = "loadXQAKernels",
                                           !.outcome = IF done.threw THEN "fatal" ELSE "ok",
                                           !.fatal = IF done.threw THEN "CUDA driver error" ELSE "",
                                           !.before = <<registries[1]>>]
    /\ UNCHANGED <<catalog, forceXQA, cacheVars>>

\* the call returns (or its exception has propagated) and the caller goes on
Return ==
    /\ ~Idle
    /\ lastCall' = NoCall
    /\ UNCHANGED <<catalog, forceXQA, registries, cacheVars>>

NextLoad == Load \/ Return

SpecLoad == InitLoad /\ [][NextLoad]_vars

(***************************************************************************)
(* The registry harness: a registry as getXQAKernels hands it out, that is *)
(* constructed and loaded once without error, and the lookups and          *)
(* dispatches made on it.                                                  *)
(***************************************************************************)
Init ==
    /\ catalog \in Catalogs
    /\ forceXQA = FALSE
    /\ \E sm \in {80, kSM_90} :
          registries = <<loadXQAKernels(XQAKernelList("DATA_TYPE_FP16", sm, forceXQA),
                                        catalog, NoFail).reg>>
    /\ lastCall = NoCall
    /\ constructedFor = <<[loader |-> 0, type |-> registries[1].mDataType, sm |-> registries[1].mSM]>>
    /\ NoCache

\* a call of supportConfig on the registry
SupportConfig ==
    /\ Idle
    /\ \E req \in Requests :
          /\ lastCall' = supportConfig(registries[1], req)
          /\ registries' = [registries EXCEPT ![1] = Looked(@, lastCall')]
    /\ UNCHANGED <<catalog, forceXQA, cacheVars>>

\* a call of run on the registry
Run ==
    /\ Idle
    /\ \E req \in Requests : \E fail \in RunFailures :
          /\ lastCall' = run(registries[1], req, 108, fail)
          /\ registries' = [registries EXCEPT ![1] = Looked(@, lastCall')]
    /\ UNCHANGED <<catalog, forceXQA, cacheVars>>

Next == SupportConfig \/ Run \/ Return

Spec == Init /\ [][Next]_vars

(***************************************************************************)
(* The heuristic harness: mayHavePerfGain on a constructed registry, over  *)
(* requests and multiprocessor counts around its threshold.                *)
(***************************************************************************)
HeuristicRequests ==
    {XQAParams("DATA_TYPE_FP16", 1, 8 * k, k, multi, IF multi THEN 4 ELSE 1, FALSE, mbm, nullptr,
               batch, timestep) :
        k \in {1, 8}, multi \in BOOLEAN, mbm \in BOOLEAN, batch \in {1, 2, 27},
        timestep \in {0, 127, 128, 256, 300}}

MultiprocessorCounts == {4, 8, 108, 132}

InitHeuristic ==
    /\ catalog = <<>>
    /\ forceXQA \in BOOLEAN
    /\ registries = <<loadXQAKernels(XQAKernelList("DATA_TYPE_FP16", 80, forceXQA),
                                     catalog, NoFail).reg>>
    /\ lastCall = NoCall
    /\ constructedFor = <<[loader |-> 0, type |-> registries[1].mDataType, sm |-> registries[1].mSM]>>
    /\ NoCache

\* a call of mayHavePerfGain on the registry
MayHavePerfGain ==
    /\ Idle
    /\ \E req \in HeuristicRequests : \E multiprocessor_count \in MultiprocessorCounts :
          lastCall' = mayHavePerfGain(registries[1], req, multiprocessor_count)
    /\ UNCHANGED <<catalog, forceXQA, registries, cacheVars>>

NextHeuristic == MayHavePerfGain \/ Return

SpecHeuristic == InitHeuristic /\ [][NextHeuristic]_vars

(***************************************************************************)
(* The per-device cache: threads calling getXQAKernels(type, sm), that is  *)
(* XQAKernelLoader::Get().getXQAKernels(type, sm), and then using the      *)
(* registry they got (shouldUse, runDispatchBuffer).                       *)
(***************************************************************************)
Devices == {0, 1}

\* the ordinals getDevice() reports to Get: those devices, and the first two
\* ordinals that s_factory has no slot for
DeviceOrdinals == Devices \cup {kNbFactorySlots, kNbFactorySlots + 1}

\* whether s_factory[device_id] is an element of s_factory
InTable(device_id) == device_id \in 0..(kNbFactorySlots - 1)

\* assert(device_id <= 32)
AssertAccepts(device_id) == device_id <= 32

\* getSMVersion() on a device
DeviceSM(device) == IF device = 0 THEN 80 ELSE kSM_90

\* the catalog and the request of the cache's threads
CacheCatalogs == {<<KernelMetaUniverse[1], KernelMetaUniverse[4]>>}

CacheRequests == {XQAParams("DATA_TYPE_FP16", 1, 8, 1, FALSE, 1, FALSE, FALSE, nullptr, 2, 256)}

\* the driver errors the cache's threads meet in loadXQAKernels
CacheLoadFailures ==
    {NoFail, [idx |-> 1, call |-> "cuModuleLoadData"], [idx |-> 1, call |-> "cuModuleGetFunction"],
     [idx |-> 2, call |-> "smemSize"], [idx |-> 2, call |-> "cuFuncSetAttribute"]}

\* DecoderXQAImplPrecompiled::shouldUse on a registry
shouldUse(reg, req, multiprocessor_count) ==
    LET supported == supportConfig(reg, req)
        gain == mayHavePerfGain(reg, req, multiprocessor_count)
    IN  IF supported.outcome = "fatal" THEN [supported EXCEPT !.op = "shouldUse"]
        ELSE [supported EXCEPT !.op = "shouldUse", !.mpc = multiprocessor_count,
                               !.blockCount = IF supported.result THEN gain.blockCount ELSE 0,
                               !.result = supported.result /\ gain.result]

InitCache ==
    /\ catalog \in CacheCatalogs
    /\ forceXQA = FALSE
    /\ registries = <<>>
    /\ lastCall = NoCall
    /\ constructedFor = <<>>
    /\ NoCache

\* faulty variant of CanLock: getXQAKernels takes no lock
CanLock_Always(holder) == TRUE

\* std::lock_guard on s_mutex: the condition under which the lock is taken
CanLock(holder) == holder = 0

\* the registries a loader's destructor destroys with it
OwnedRegistries(loader) == {loader.mKernels[k] : k \in DOMAIN loader.mKernels}

RECURSIVE SumCalls(_)
SumCalls(t) == IF t = 0 THEN 0 ELSE local[t].calls + SumCalls(t - 1)

\* calls of getXQAKernels started so far, over all threads
Calls == SumCalls(NumThreads)

\* a thread starts getXQAKernels(type, sm) on its current device and Get reads
\* the slot: if (s_factory[device_id] == nullptr).  Nothing precedes the read:
\* for an ordinal without a slot it is a read behind the array, which may
\* compare equal to nullptr or not
GetCheck(t) ==
    /\ pc[t] = "idle"
    /\ Calls < MaxCalls
    /\ \E device \in DeviceOrdinals : \E type \in {"DATA_TYPE_FP16", "DATA_TYPE_BF16"} :
          /\ InTable(device) \/ type = "DATA_TYPE_FP16"
          /\ local' = [local EXCEPT ![t] = [device |-> device, type |-> type,
                                            sm |-> DeviceSM(device), factory |-> 0,
                                            kernel |-> 0, calls |-> @.calls + 1, last |-> "none",
                                            outOfBounds |-> ~InTable(device)]]
          /\ \E next \in (IF InTable(device)
                           THEN {IF s_factory[device] = 0 THEN "make" ELSE "deref"}
                           ELSE {"make", "deref"}) :
                pc' = [pc EXCEPT ![t] = next]
    /\ lastCall' = NoCall
    /\ UNCHANGED <<catalog, forceXQA, registries, s_factory, loaders, freed, s_mutex,
                   constructedFor, returned>>

\* Get: s_factory[device_id] = std::make_unique<XQAKernelLoader>(...); the
\* assignment destroys the loader the slot held, and its registries with it
\* For an ordinal without a slot the assert, in a build that has it, stops the
\* process unless it accepts the ordinal; otherwise the assignment writes
\* behind the array, and what the thread does from there on is undefined
GetMake(t) ==
    /\ pc[t] = "make"
    /\ LET device == local[t].device
       IN IF InTable(device)
          THEN LET old == s_factory[device]
               IN /\ loaders' = Append(loaders, [device |-> device, mKernels |-> EmptyMap])
                  /\ s_factory' = [s_factory EXCEPT ![device] = Len(loaders) + 1]
                  /\ freed' = IF old = 0 THEN freed
                              ELSE [loaders |-> freed.loaders \cup {old},
                                    registries |-> freed.registries
                                                     \cup OwnedRegistries(loaders[old])]
                  /\ pc' = [pc EXCEPT ![t] = "deref"]
                  /\ UNCHANGED local
          ELSE /\ \E asserts \in BOOLEAN :
                     local' = [local EXCEPT ![t].last =
                                  IF asserts /\ ~AssertAccepts(device) THEN "assert"
                                  ELSE "write behind s_factory"]
               /\ pc' = [pc EXCEPT ![t] = "fault"]
               /\ UNCHANGED <<loaders, s_factory, freed>>
    /\ lastCall' = NoCall
    /\ UNCHANGED <<catalog, forceXQA, registries, s_mutex, constructedFor, returned>>

\* Get: return *(s_factory[device_id])
GetReturn(t) ==
    /\ pc[t] = "deref"
    /\ InTable(local[t].device)
    /\ local' = [local EXCEPT ![t].factory = s_factory[local[t].device]]
    /\ pc' = [pc EXCEPT ![t] = "lock"]
    /\ lastCall' = NoCall
    /\ UNCHANGED <<catalog, forceXQA, registries, s_factory, loaders, freed, s_mutex,
                   constructedFor, returned>>

\* getXQAKernels: std::lock_guard<std::mutex> lg(s_mutex)
Lock(t) ==
    /\ pc[t] = "lock"
    /\ CanLock(s_mutex)
    /\ s_mutex' = t
    /\ pc' = [pc EXCEPT ![t] = "find"]
    /\ lastCall' = NoCall
    /\ UNCHANGED <<catalog, forceXQA, registries, s_factory, loaders, freed, local,
                   constructedFor, returned>>

\* faulty variant of Unlock: the mutex stays locked
Unlock_Never(t, holder) == holder

\* the lock_guard's destructor, on return and on unwinding; without effect when
\* the lock was not taken
Unlock(t, holder) == IF holder = t THEN 0 ELSE holder

\* getXQAKernels: mKernels.find(hash_key), and the return of a registry found
Find(t) ==
    /\ pc[t] = "find"
    /\ LET me == local[t]
           hash_key == <<me.type, me.sm>>
           mKernels == loaders[me.factory].mKernels
       IN IF hash_key \in DOMAIN mKernels
          THEN /\ local' = [local EXCEPT ![t].kernel = mKernels[hash_key], ![t].last = "ok"]
               /\ returned' = returned \cup {[loader |-> me.factory, key |-> hash_key,
                                              kernel |-> mKernels[hash_key]]}
               /\ s_mutex' = Unlock(t, s_mutex)
               /\ pc' = [pc EXCEPT ![t] = "use"]
          ELSE /\ pc' = [pc EXCEPT ![t] = "load"]
               /\ UNCHANGED <<local, returned, s_mutex>>
    /\ lastCall' = NoCall
    /\ UNCHANGED <<catalog, forceXQA, registries, s_factory, loaders, freed,
                   constructedFor>>

\* faulty variant of Threw: the error of loadXQAKernels is swallowed
Threw_Swallowed(done) == FALSE

\* whether newKernel->loadXQAKernels() left by an exception, which then leaves
\* getXQAKernels as well: nothing in getXQAKernels catches it
Threw(done) == done.threw

\* getXQAKernels: new XQAKernelList, loadXQAKernels, mKernels.insert, return;
\* a driver error in loadXQAKernels propagates out of the call
LoadNew(t) ==
    /\ pc[t] = "load"
    /\ \E fail \in CacheLoadFailures :
          LET me == local[t]
              hash_key == <<me.type, me.sm>>
              done == loadXQAKernels(XQAKernelList(me.type, me.sm, forceXQA), catalog, fail)
              newKernel == Len(registries) + 1
          IN /\ registries' = Append(registries, done.reg)
             /\ constructedFor' = Append(constructedFor,
                                         [loader |-> me.factory, type |-> me.type, sm |-> me.sm])
             /\ IF Threw(done)
                THEN /\ local' = [local EXCEPT ![t].last = "fatal"]
                     /\ pc' = [pc EXCEPT ![t] = "idle"]
                     /\ UNCHANGED <<loaders, returned>>
                ELSE /\ loaders' = [loaders EXCEPT ![me.factory].mKernels =
                                        MapInsert(@, hash_key, newKernel)]
                     /\ local' = [local EXCEPT ![t].kernel = newKernel, ![t].last = "ok"]
                     /\ returned' = returned \cup {[loader |-> me.factory, key |-> hash_key,
                                                    kernel |-> newKernel]}
                     /\ pc' = [pc EXCEPT ![t] = "use"]
    /\ s_mutex' = Unlock(t, s_mutex)
    /\ lastCall' = NoCall
    /\ UNCHANGED <<catalog, forceXQA, s_factory, freed>>

\* the caller of getXQAKernels uses the registry: shouldUse or runDispatchBuffer
Use(t) ==
    /\ pc[t] = "use"
    /\ \E req \in CacheRequests : \E dispatch \in BOOLEAN :
          /\ lastCall' = IF dispatch THEN run(registries[local[t].kernel], req, 108, "none")
                         ELSE shouldUse(registries[local[t].kernel], req, 108)
          /\ registries' = [registries EXCEPT ![local[t].kernel] = Looked(@, lastCall')]
    /\ pc' = [pc EXCEPT ![t] = "idle"]
    /\ UNCHANGED <<catalog, forceXQA, s_factory, loaders, freed, s_mutex, local,
                   constructedFor, returned>>

\* a thread that works on a loader or a registry already destroyed has undefined
\* behaviour: it may carry on as above on the stale object, or fault at that
\* point; so has a thread that takes what lies behind s_factory for a loader
Fault(t) ==
    /\ \/ pc[t] \in {"find", "load"} /\ local[t].factory \in freed.loaders
       \/ pc[t] = "use" /\ local[t].kernel \in freed.registries
       \/ pc[t] = "deref" /\ ~InTable(local[t].device)
    /\ pc' = [pc EXCEPT ![t] = "fault"]
    /\ s_mutex' = Unlock(t, s_mutex)
    /\ lastCall' = NoCall
    /\ UNCHANGED <<catalog, forceXQA, registries, s_factory, loaders, freed, local,
                   constructedFor, returned>>

NextCache ==
    \E t \in Threads :
        \/ GetCheck(t)
        \/ GetMake(t)
        \/ GetReturn(t)
        \/ Lock(t)
        \/ Find(t)
        \/ LoadNew(t)
        \/ Use(t)
        \/ Fault(t)

SpecCache == InitCache /\ [][NextCache]_vars

\* a thread inside Get or getXQAKernels goes on running: it is not stopped for
\* ever where it can take a step
ThreadStep(t) == GetMake(t) \/ GetReturn(t) \/ Lock(t) \/ Find(t) \/ LoadNew(t)

SpecCacheFair == SpecCache /\ \A t \in Threads : WF_vars(ThreadStep(t))

(***************************************************************************)
(* The claims.                                                             *)
(***************************************************************************)

\* C1: whenever supportConfig returns true for a request on a loaded registry,
\* run on that registry with that request finds its kernel: the fatal
\* "XQAKernelFunc not found." is never raised.  Stated as the claim has it, for
\* every catalog and every request.
C1_SupportedRequestIsFound ==
    (/\ lastCall.op = "run"
     /\ lastCall.req.num_q_heads % lastCall.req.num_kv_heads = 0
     /\ supportConfig(registries[1], lastCall.req).result)
    => lastCall.fatal # "XQAKernelFunc not found."

\* C2: on a loaded registry, for every descriptor of the catalog that matches the
\* registry and has a cubin, supportConfig returns true for every request whose
\* fields are that descriptor's fields (the tile size of a multi-token request
\* being the one its query length selects).  Stated as the claim has it.
C2_DescriptorIsSupported ==
    \A i \in DOMAIN catalog :
        LET d == catalog[i]
            tile(req) == IF req.generation_input_length <= 16 THEN 16 ELSE 32
            ratio(req) == req.num_q_heads \div req.num_kv_heads
            Implied(req) ==
                /\ req.num_q_heads % req.num_kv_heads = 0
                /\ req.kv_cache_data_type = d.mKVDataType
                /\ req.head_size = d.mHeadDim
                /\ req.beam_width = d.mBeamWidth
                /\ req.paged_kv_cache = d.mPagedKVCache
                /\ (d.mPagedKVCache => req.tokens_per_block = d.mTokensPerPage)
                /\ req.multi_query_tokens = d.mMultiQueryTokens
                /\ IF d.mMultiQueryTokens THEN tile(req) = d.mMTileSize
                   ELSE ratio(req) = d.mNumQHeadsOverKV /\ ratio(req) = d.mMTileSize
        IN  (d.mSM = registries[1].mSM /\ d.mDataType = registries[1].mDataType
             /\ d.mCubin # nullptr)
            => \A req \in Requests : Implied(req) => supportConfig(registries[1], req).result

\* C3: one XQAKernelLoader at most is ever constructed for a device ordinal, and
\* a thread that got a loader from Get holds the one the table holds, which has
\* not been destroyed.  Stated as the claim has it.
C3_OneLoaderPerDevice ==
    /\ \A device \in Devices :
          Cardinality({l \in DOMAIN loaders : loaders[l].device = device}) <= 1
    /\ \A t \in Threads :
          pc[t] \in {"lock", "find", "load"}
          => /\ local[t].factory = s_factory[local[t].device]
             /\ local[t].factory \notin freed.loaders

\* the registries constructed for a key of a loader
RegistriesFor(l, type, sm) ==
    {r \in DOMAIN registries : constructedFor[r] = [loader |-> l, type |-> type, sm |-> sm]}

LiveLoaders == {l \in DOMAIN loaders : l \notin freed.loaders}

CacheKeys == {"DATA_TYPE_FP16", "DATA_TYPE_BF16"} \X {80, kSM_90}

\* C4 as the claim has it: within a device cache at most one registry is ever
\* constructed for a (type, sm) pair, loadXQAKernels runs exactly once on it,
\* and every call with that pair returns that registry.
C4_OneRegistryConstructedPerKey ==
    \A l \in LiveLoaders : \A key \in CacheKeys :
        /\ Cardinality(RegistriesFor(l, key[1], key[2])) <= 1
        /\ \A r \in RegistriesFor(l, key[1], key[2]) : registries[r].loadCalls = 1
        /\ \A x \in returned : \A y \in returned :
              (x.loader = l /\ y.loader = l /\ x.key = key /\ y.key = key) => x.kernel = y.kernel

\* C4, amended: within a device cache, for every (type, sm) pair at most one
\* registry is ever constructed whose loadXQAKernels returned, loadXQAKernels
\* runs exactly once on every registry constructed, and every call with that
\* pair that returns a registry returns that one, the one the cache holds.
C4_OneRegistryLoadedPerKey ==
    \A l \in LiveLoaders : \A key \in CacheKeys :
        /\ Cardinality({r \in RegistriesFor(l, key[1], key[2]) :
                            registries[r].loadReturned >= 1}) <= 1
        /\ \A r \in RegistriesFor(l, key[1], key[2]) : registries[r].loadCalls = 1
        /\ \A x \in returned :
              (x.loader = l /\ x.key = key)
              => /\ key \in DOMAIN loaders[l].mKernels
                 /\ x.kernel = loaders[l].mKernels[key]
                 /\ registries[x.kernel].loadReturned = 1

\* two threads hold the registry of the same key of the same live loader
C4_Witness ==
    \E t \in Threads : \E u \in Threads :
        /\ t # u
        /\ pc[t] = "use" /\ pc[u] = "use"
        /\ local[t].factory = local[u].factory
        /\ local[t].factory \in LiveLoaders
        /\ local[t].kernel = local[u].kernel
        /\ local[t].calls + local[u].calls = 2

NoDuplicates(seq) == \A i \in DOMAIN seq : \A j \in DOMAIN seq : seq[i] = seq[j] => i = j

\* C5 as the claim has it: a second or later call of loadXQAKernels leaves the
\* handle map and the module map as it found them, and no cubin is loaded into
\* a module twice.
C5_SecondLoadChangesNothing ==
    /\ (lastCall.op = "loadXQAKernels" /\ registries[1].loadCalls >= 2)
       => /\ registries[1].mFunctions = lastCall.before[1].mFunctions
          /\ registries[1].mModules = lastCall.before[1].mModules
    /\ NoDuplicates(registries[1].moduleLoads)

\* C5, amended: a call of loadXQAKernels made after a call that returned
\* normally leaves the handle map and the module map as it found them, and
\* over any number of calls, ended by a driver error or not, no cubin is loaded
\* into a module twice.
C5_LoadAfterLoadChangesNothing ==
    /\ (lastCall.op = "loadXQAKernels" /\ lastCall.before[1].loadReturned >= 1)
       => /\ registries[1].mFunctions = lastCall.before[1].mFunctions
          /\ registries[1].mModules = lastCall.before[1].mModules
    /\ NoDuplicates(registries[1].moduleLoads)

\* a second call has returned on a registry whose two handles share one module
C5_Witness ==
    /\ lastCall.op = "loadXQAKernels"
    /\ lastCall.before[1].loadReturned = 1
    /\ registries[1].loadReturned = 2
    /\ Cardinality(DOMAIN registries[1].mFunctions) = 2
    /\ registries[1].moduleLoads = <<"cubinA">>

\* C6: for a request whose num_q_heads is no multiple of num_kv_heads,
\* supportConfig and run end in the fatal check before anything else: no
\* handle-map lookup, no preprocessing, no launch, no conversion.
C6_IndivisibleHeadsAreFatalFirst ==
    (/\ lastCall.op \in {"supportConfig", "run"}
     /\ lastCall.req.num_q_heads % lastCall.req.num_kv_heads # 0)
    => /\ lastCall.outcome = "fatal"
       /\ lastCall.fatal = "numQHeads should be multiple of numKVHeads."
       /\ lastCall.events = <<>>

C6_Witness ==
    /\ lastCall.op = "run"
    /\ lastCall.req.num_q_heads = 12 /\ lastCall.req.num_kv_heads = 8
    /\ lastCall.outcome = "fatal"
    /\ SupportConfigKey([lastCall.req EXCEPT !.num_q_heads = 8, !.num_kv_heads = 1])
           \in DOMAIN registries[1].mFunctions

\* the work blocks of the claim: KV heads x batch size x split factor, the split
\* factor being max(1, history length / kMinHistoryTokensPerBlock) under
\* multi-block mode and 1 otherwise
ClaimedWorkBlocks(req) ==
    LET quotient == req.timestep \div kMinHistoryTokensPerBlock
        splitFactor == IF req.multi_block_mode
                       THEN (IF quotient >= 1 THEN quotient ELSE 1)
                       ELSE 1
    IN  req.num_kv_heads * req.batch_size * splitFactor

\* C7: when neither the override nor multi-token speculation applies,
\* mayHavePerfGain computes the work blocks of the claim, with a split factor
\* never below 1.  Stated as the claim has it.
C7_SplitFactorAtLeastOne ==
    (/\ lastCall.op = "mayHavePerfGain"
     /\ ~registries[1].mForceXQA
     /\ ~lastCall.req.multi_query_tokens)
    => /\ lastCall.blockCount = ClaimedWorkBlocks(lastCall.req)
       /\ lastCall.result
            = (ClaimedWorkBlocks(lastCall.req) * kEnableMinBlockFactor >= lastCall.mpc)

\* C8: when neither the override nor multi-token speculation applies,
\* mayHavePerfGain returns true iff block_count x kEnableMinBlockFactor is at
\* least the multiprocessor count: true on equality, false below.
C8_ThresholdIsInclusive ==
    (/\ lastCall.op = "mayHavePerfGain"
     /\ ~registries[1].mForceXQA
     /\ ~lastCall.req.multi_query_tokens)
    => /\ (lastCall.blockCount * kEnableMinBlockFactor = lastCall.mpc => lastCall.result)
       /\ (lastCall.blockCount * kEnableMinBlockFactor > lastCall.mpc => lastCall.result)
       /\ (lastCall.blockCount * kEnableMinBlockFactor < lastCall.mpc => ~lastCall.result)

\* the product equals the multiprocessor count and the answer is true
C8_Witness ==
    /\ lastCall.op = "mayHavePerfGain"
    /\ ~registries[1].mForceXQA
    /\ ~lastCall.req.multi_query_tokens
    /\ lastCall.req.num_kv_heads * lastCall.req.batch_size = 27
    /\ lastCall.blockCount * kEnableMinBlockFactor = lastCall.mpc
    /\ lastCall.result

\* C9: mayHavePerfGain returns true for every request with multi_query_tokens
\* set and, under the override, for every request, whatever the multiprocessor
\* count, batch size, KV head count, history length and multi-block flag.
C9_ShortcutReturnsTrue ==
    (/\ lastCall.op = "mayHavePerfGain"
     /\ (lastCall.req.multi_query_tokens \/ forceXQA))
    => lastCall.result

\* a multi-token request far below the threshold, without the override
C9_Witness ==
    /\ lastCall.op = "mayHavePerfGain"
    /\ ~forceXQA
    /\ lastCall.req.multi_query_tokens
    /\ lastCall.req.multi_block_mode /\ lastCall.req.timestep = 0
    /\ lastCall.req.num_kv_heads * lastCall.req.batch_size * kEnableMinBlockFactor < lastCall.mpc
    /\ lastCall.result

InSeq(x, seq) == \E i \in DOMAIN seq : seq[i] = x

\* C10: a single-token run that reaches its launch has written to kernelParams
\* 9 entries, the null guard included, plus one for the beam-search block
\* (there iff beam_width > 1) plus one for the tensor map; the guard is the last
\* entry and the only null one; every write is inside the 11 slots and below
\* maxNbKernelParams, and the check of appendParam never fails.
C10_KernelParamCount ==
    (/\ lastCall.op = "run"
     /\ ~lastCall.req.multi_query_tokens
     /\ lastCall.kernelParams # <<>>)
    => LET written == lastCall.kernelParams
           beam == IF InSeq("beamSearchParams", written) THEN 1 ELSE 0
           tensorMap == IF InSeq("tensorMap", written) THEN 1 ELSE 0
       IN  /\ InSeq("beamSearchParams", written) = (lastCall.req.beam_width > 1)
           /\ Len(written) = 9 + beam + tensorMap
           /\ written[Len(written)] = nullptr
           /\ \A i \in 1..(Len(written) - 1) : written[i] # nullptr
           /\ Len(written) <= kMAX_NB_KERNEL_PARAMS
           /\ Len(written) <= lastCall.maxNbKernelParams
           /\ ~lastCall.outOfBounds
           /\ lastCall.fatal # "Assertion failed: idxNextParam < maxNbKernelParams"

\* a launch with ten entries, the tensor map among them
C10_Witness ==
    /\ lastCall.op = "run"
    /\ lastCall.outcome = "ok"
    /\ ~lastCall.req.multi_query_tokens
    /\ Len(lastCall.kernelParams) = 10
    /\ InSeq("tensorMap", lastCall.kernelParams)
    /\ lastCall.kernelParams[10] = nullptr

\* C11: the tile size of every key derived from a request, by supportConfig and
\* by run, is 16 for a multi-token request of query length at most 16, 32 for a
\* multi-token request of query length above 16, and num_q_heads / num_kv_heads
\* for a single-token request.  Stated as the claim has it.
C11_TileSizeOfKey ==
    (/\ lastCall.op \in {"supportConfig", "run"}
     /\ InSeq("find", lastCall.events))
    => lastCall.key.m_tilesize
         = IF lastCall.req.multi_query_tokens
           THEN (IF lastCall.req.generation_input_length <= 16 THEN 16 ELSE 32)
           ELSE lastCall.req.num_q_heads \div lastCall.req.num_kv_heads

\* C12: the head-ratio field of every key derived from a request, by
\* supportConfig and by run, is 0 when multi_query_tokens is set and
\* num_q_heads / num_kv_heads when it is not.
C12_HeadRatioOfKey ==
    (/\ lastCall.op \in {"supportConfig", "run"}
     /\ InSeq("find", lastCall.events))
    => lastCall.key.num_q_heads_per_kv
         = IF lastCall.req.multi_query_tokens THEN 0
           ELSE lastCall.req.num_q_heads \div lastCall.req.num_kv_heads

\* run has found and launched the kernel of a multi-token request whose true
\* ratio is 8
C12_Witness ==
    /\ lastCall.op = "run"
    /\ lastCall.outcome = "ok"
    /\ lastCall.req.multi_query_tokens
    /\ lastCall.req.num_q_heads \div lastCall.req.num_kv_heads = 8
    /\ lastCall.key.num_q_heads_per_kv = 0

\* a descriptor loadXQAKernels goes past: not of the registry's architecture
\* class and numeric type, or without a cubin
Skipped(reg, kernelMeta) ==
    \/ kernelMeta.mSM # reg.mSM
    \/ kernelMeta.mDataType # reg.mDataType
    \/ kernelMeta.mCubin = nullptr

\* C13: a descriptor without a cubin is skipped by loadXQAKernels without
\* error: no module is loaded and no symbol resolved for it, no handle of the
\* handle map refers to it (every handle's descriptor has a cubin and the
\* registry's architecture class and numeric type), and a call that goes past
\* every descriptor of the catalog does not fail.
C13_AbsentCubinIsSkipped ==
    LET reg == registries[1]
    IN  /\ \A k \in DOMAIN reg.mFunctions :
              /\ reg.mFunctions[k].mMetaInfoIndex \in DOMAIN catalog
              /\ ~Skipped(reg, catalog[reg.mFunctions[k].mMetaInfoIndex])
        /\ \A i \in reg.resolved : catalog[i].mCubin # nullptr
        /\ nullptr \notin DOMAIN reg.mModules
        /\ \A i \in DOMAIN reg.moduleLoads : reg.moduleLoads[i] # nullptr
        /\ (/\ lastCall.op = "loadXQAKernels"
            /\ \A i \in DOMAIN catalog : Skipped(reg, catalog[i]))
           => lastCall.outcome = "ok"

\* a call has returned on a catalog that holds, for this registry, a descriptor
\* with a cubin and one without: one handle, one module
C13_Witness ==
    /\ lastCall.op = "loadXQAKernels"
    /\ lastCall.outcome = "ok"
    /\ Len(catalog) = 2
    /\ catalog[2].mCubin = nullptr
    /\ catalog[2].mSM = registries[1].mSM /\ catalog[2].mDataType = registries[1].mDataType
    /\ Cardinality(DOMAIN registries[1].mFunctions) = 1
    /\ Len(registries[1].moduleLoads) = 1

\* where an operation occurs among the events of a call
Positions(e, seq) == {i \in DOMAIN seq : seq[i] = e}

\* the operations that change what the caller can see: the preprocessing writes
\* the KV cache, the others write the scratch and output buffers
VisibleWork ==
    {"invokeQKVPreprocessing", "cudaMemsetAsync", "cuLaunchKernel", "invokeConversion"}

\* C14 as the claim has it: every call of run returns with its kernel launched
\* or ends in a fatal error, and a call that ends in a fatal error has issued
\* no preprocessing, no launch and no other work on the caller's buffers.
C14_AbortIssuesNothing ==
    lastCall.op = "run"
    => /\ lastCall.outcome \in {"ok", "fatal"}
       /\ lastCall.outcome = "ok" => InSeq("cuLaunchKernel", lastCall.events)
       /\ lastCall.outcome = "fatal"
          => \A i \in DOMAIN lastCall.events : lastCall.events[i] \notin VisibleWork

\* C14, amended: every call of run returns with exactly one kernel launched or
\* ends in a fatal error; a call ended by the head-count check has issued
\* nothing; a call ended because no handle was found or because the kernel type
\* does not fit has issued the preprocessing but no zeroing, no launch and no
\* conversion; no call launches more than one kernel.
C14_AbortLaunchesNothing ==
    lastCall.op = "run"
    => /\ lastCall.outcome \in {"ok", "fatal"}
       /\ lastCall.outcome = "ok"
          => Cardinality(Positions("cuLaunchKernel", lastCall.events)) = 1
       /\ lastCall.fatal = "numQHeads should be multiple of numKVHeads."
          => lastCall.events = <<>>
       /\ lastCall.fatal \in {"XQAKernelFunc not found.", "Assertion failed: isGmmaKernel"}
          => /\ InSeq("invokeQKVPreprocessing", lastCall.events)
             /\ \A i \in DOMAIN lastCall.events :
                   lastCall.events[i] \notin {"cudaMemsetAsync", "cuLaunchKernel",
                                              "invokeConversion"}
       /\ Cardinality(Positions("cuLaunchKernel", lastCall.events)) <= 1

\* run has ended at the lookup, on a request supportConfig does not accept
\* either, with the preprocessing issued
C14_Witness ==
    /\ lastCall.op = "run"
    /\ lastCall.fatal = "XQAKernelFunc not found."
    /\ ~supportConfig(registries[1], lastCall.req).result
    /\ InSeq("invokeQKVPreprocessing", lastCall.events)
    /\ ~InSeq("cuLaunchKernel", lastCall.events)

\* C15: a run with multi_block_mode set that launches its kernel, single-token
\* or multi-token, has issued the zeroing of the semaphores before the launch.
\* Stated as the claim has it.
C15_ZeroedBeforeLaunch ==
    (/\ lastCall.op = "run"
     /\ lastCall.req.multi_block_mode
     /\ InSeq("cuLaunchKernel", lastCall.events))
    => \E i \in Positions("cudaMemsetAsync", lastCall.events) :
          \A j \in Positions("cuLaunchKernel", lastCall.events) : i < j

\* C16: in a single-token run that found its handle, the call ends in the
\* fatal check, with no parameter written and no kernel launched, whenever
\* (kernel type is kHOPPER_WARP_SPECIALIZED) differs from (SM 90 and E4M3 cache
\* and beam width 1); otherwise the tensor map is among the parameters iff the
\* kernel type is kHOPPER_WARP_SPECIALIZED, and the block depth of the launch
\* is the one of that kernel type.
C16_TensorMapFollowsKernelType ==
    (/\ lastCall.op = "run"
     /\ ~lastCall.req.multi_query_tokens
     /\ InSeq("find", lastCall.events)
     /\ lastCall.key \in DOMAIN registries[1].mFunctions)
    => LET isGmmaKernel ==
               registries[1].mFunctions[lastCall.key].mKernelType = "kHOPPER_WARP_SPECIALIZED"
           expected == /\ registries[1].mSM = kSM_90
                       /\ lastCall.req.kv_cache_data_type = "DATA_TYPE_E4M3"
                       /\ lastCall.req.beam_width = 1
       IN  IF isGmmaKernel # expected
           THEN /\ lastCall.outcome = "fatal"
                /\ lastCall.fatal = "Assertion failed: isGmmaKernel"
                /\ lastCall.kernelParams = <<>>
                /\ ~InSeq("cuLaunchKernel", lastCall.events)
           ELSE /\ InSeq("tensorMap", lastCall.kernelParams) = isGmmaKernel
                /\ InSeq("cuLaunchKernel", lastCall.events)
                   => lastCall.launch.blockZ = IF isGmmaKernel THEN 3 ELSE 2

\* a kernel of type kHOPPER_WARP_SPECIALIZED was found for a request with an
\* FP16 cache, and the call ended in the check
C16_Witness ==
    /\ lastCall.op = "run"
    /\ lastCall.fatal = "Assertion failed: isGmmaKernel"
    /\ lastCall.req.kv_cache_data_type = "DATA_TYPE_FP16"
    /\ registries[1].mFunctions[lastCall.key].mKernelType = "kHOPPER_WARP_SPECIALIZED"

\* C17: in a run that returns normally the preprocessing is issued and waited
\* for, then comes the lookup, then exactly one launch, then the conversion;
\* the conversion is issued iff the request has an fp8_out_scale; with it the
\* kernel writes ioScratch and the conversion the caller's buffer, without it
\* the kernel writes the caller's buffer.
C17_OrderOfDispatch ==
    (lastCall.op = "run" /\ lastCall.outcome = "ok")
    => LET ev == lastCall.events
           At(e) == CHOOSE i \in Positions(e, ev) : TRUE
           scaled == lastCall.req.fp8_out_scale # nullptr
       IN  /\ Cardinality(Positions("invokeQKVPreprocessing", ev)) = 1
           /\ Cardinality(Positions("find", ev)) = 1
           /\ Cardinality(Positions("cuLaunchKernel", ev)) = 1
           /\ ev[At("invokeQKVPreprocessing") + 1] = "sync_check_cuda_error"
           /\ At("invokeQKVPreprocessing") + 1 < At("find")
           /\ At("find") < At("cuLaunchKernel")
           /\ InSeq("invokeConversion", ev) = scaled
           /\ scaled => /\ Cardinality(Positions("invokeConversion", ev)) = 1
                         /\ At("cuLaunchKernel") < At("invokeConversion")
                         /\ lastCall.output = "ioScratch"
           /\ ~scaled => lastCall.output = "xqaParams.output"
           /\ InSeq("output", lastCall.kernelParams)

\* a multi-token run with an fp8_out_scale has zeroed, launched and converted
C17_Witness ==
    /\ lastCall.op = "run"
    /\ lastCall.outcome = "ok"
    /\ lastCall.req.fp8_out_scale # nullptr
    /\ lastCall.req.multi_query_tokens
    /\ lastCall.events[Len(lastCall.events) - 1] = "invokeConversion"
    /\ lastCall.output = "ioScratch"

\* the thread holding s_mutex is between the lock_guard and the return of
\* getXQAKernels; a thread that uses its registry, that has left by a fatal
\* error or that is outside the call does not hold it
LockOnlyInGetXQAKernels ==
    \A t \in Threads : s_mutex = t => pc[t] \in {"find", "load"}

\* C18: s_mutex is held only between the lookup and the return of
\* getXQAKernels, never by a thread that is in shouldUse or run or that left
\* getXQAKernels by a load error, and every thread waiting for it gets it.
C18_LockOnlyAroundLookup ==
    /\ []LockOnlyInGetXQAKernels
    /\ \A t \in Threads : (pc[t] = "lock") ~> (pc[t] # "lock")

\* a thread has left getXQAKernels by a load error and another thread has
\* taken the lock after it
C18_Witness ==
    \E t \in Threads : \E u \in Threads :
        /\ t # u
        /\ local[t].last = "fatal" /\ pc[t] = "idle"
        /\ s_mutex = u /\ pc[u] = "load"
        /\ local[u].factory = local[t].factory

\* C19: the handle map of a registry that getXQAKernels has returned never
\* changes, whatever the threads do next (supportConfig, mayHavePerfGain and
\* run on it, further calls of getXQAKernels): no handle is added or modified,
\* and the map is not destroyed under its users.  Stated as the claim has it.
C19_ReturnedMapNeverChanges ==
    /\ [][\A x \in returned :
            registries'[x.kernel].mFunctions = registries[x.kernel].mFunctions]_vars
    /\ [](\A x \in returned : x.kernel \notin freed.registries)

\* the handle map loadXQAKernels builds for a registry when no driver call fails
FullyLoaded(type, sm) ==
    loadXQAKernels(XQAKernelList(type, sm, forceXQA), catalog, NoFail).reg.mFunctions

\* every registry a device cache holds, every registry returned and every
\* registry in use is one whose loadXQAKernels returned, with all its handles
OnlyLoadedRegistriesSeen ==
    LET Loaded(r) == /\ registries[r].loadReturned = 1
                     /\ registries[r].mFunctions
                          = FullyLoaded(registries[r].mDataType, registries[r].mSM)
    IN  /\ \A l \in DOMAIN loaders : \A k \in DOMAIN loaders[l].mKernels :
              Loaded(loaders[l].mKernels[k])
        /\ \A x \in returned : Loaded(x.kernel)
        /\ \A t \in Threads : pc[t] = "use" => Loaded(local[t].kernel)

\* a step in which the load of a thread fails takes the thread out of
\* getXQAKernels with the error and leaves every cache map and the set of
\* registries returned as they were
FailedLoadLeavesCache ==
    \A t \in Threads :
        (pc[t] = "load" /\ registries' # registries
         /\ registries'[Len(registries')].loadReturned = 0)
        => /\ loaders' = loaders
           /\ returned' = returned
           /\ pc'[t] = "idle" /\ local'[t].last = "fatal"

\* C20: when loadXQAKernels fails in getXQAKernels the error leaves
\* getXQAKernels, no registry is inserted into the cache or returned, the
\* cache map is as it was before the call, and no partly loaded registry is
\* ever in a cache, returned or used.
C20_FailedLoadInsertsNothing ==
    /\ []OnlyLoadedRegistriesSeen
    /\ [][FailedLoadLeavesCache]_vars

\* a load has failed after its module was loaded: the registry exists, with a
\* module and without handles, and the cache of its loader has no entry
C20_Witness ==
    \E t \in Threads :
        /\ local[t].last = "fatal" /\ pc[t] = "idle"
        /\ local[t].factory \in DOMAIN loaders
        /\ loaders[local[t].factory].mKernels = EmptyMap
        /\ \E r \in DOMAIN registries :
              /\ constructedFor[r].loader = local[t].factory
              /\ registries[r].moduleLoads # <<>>
              /\ registries[r].loadReturned = 0

\* C21: every read and write of s_factory by Get is at an ordinal inside its
\* 32 slots: for every ordinal getDevice() can report Get indexes a slot of the
\* table or turns the ordinal down before it reads or writes the table.
\* Stated as the claim has it.
C21_TableAccessInBounds ==
    \A t \in Threads : ~local[t].outOfBounds

====
